---------------------------- MODULE Spec2Model ----------------------------
(***************************************************************************)
(* zk-embed (tools/zk-embed/src/main.rs): derive PROGRAM_HASH, normalise a *)
(* Groth16 verifying key to its compressed encoding and emit a Rust        *)
(* snippet.                                                                *)
(*                                                                         *)
(* Text is a sequence of one-character strings, bytes are 0..255.          *)
(* The pairing curve of ark_bls12_381 is replaced by a curve of the same   *)
(* shape (y^2 = x^3 + 4, a prime-order subgroup with a cofactor, the       *)
(* three flag bits in the first byte of an encoded point) over a field     *)
(* small enough to enumerate.  BLAKE3 is replaced by a deterministic       *)
(* 32-byte mixing function.                                                *)
(***************************************************************************)
EXTENDS Integers, Sequences, FiniteSets, TLC

VARIABLES
    pc,            \* position of run()/main()
    args,          \* the parsed Args
    fsys,          \* the files the run reads: whether each exists, and its bytes
    pid_bytes,     \* run: pid_bytes
    program_hash,  \* run: program_hash
    vk_raw,        \* load_and_normalize_vk: vk_raw
    vk,            \* load_and_normalize_vk: vk, the decoded key
    vk_bytes,      \* run: vk_bytes (load_and_normalize_vk: out)
    attempts,      \* the decode attempts made so far, with their outcomes
    result,        \* what run() returned
    stdout,        \* text written to the standard output
    outfile,       \* text in the file at args.out
    emits,         \* complete emissions of the snippet
    stderr,        \* lines written to the standard error
    exit_code,     \* the process's exit status, -1 while it runs
    round,         \* how many times the normaliser has been fed its own output
    first_out,     \* the normaliser's output of the first round
    call,          \* a helper under test: its name and arguments
    ret            \* what the helper returned

vars == <<pc, args, fsys, pid_bytes, program_hash, vk_raw, vk, vk_bytes,
          attempts, result, stdout, outfile, emits, stderr, exit_code,
          round, first_out, call, ret>>

(***************************************************************************)
(* Bounds of the model.                                                    *)
(***************************************************************************)
MaxIdentLen == 3   \* longest enumerated --const-prefix
MaxHexLen == 4     \* longest enumerated --program-id-hex
MaxAbc == 1        \* longest gamma_abc_g1 of an enumerated key
MaxTrail == 1      \* most bytes appended after an encoded key
MaxVkLen == 17     \* longest byte string handed to build_snippet

(***************************************************************************)
(* Generic helpers.                                                        *)
(***************************************************************************)
\* Option<T>: the empty tuple, or a tuple of the one value.
None == << >>

Some(v) == <<v>>

IsSome(o) == Len(o) = 1

Unwrap(o) == o[1]

Ok(v) == [ok |-> TRUE, val |-> v]

Err(e) == [ok |-> FALSE, err |-> e]

SeqsUpTo(S, n) == UNION {[1..k -> S] : k \in 0..n}

RECURSIVE Flatten(_)
Flatten(ss) == IF ss = << >> THEN << >> ELSE Head(ss) \o Flatten(Tail(ss))

RECURSIVE SumSeq(_)
SumSeq(s) == IF s = << >> THEN 0 ELSE Head(s) + SumSeq(Tail(s))

StartsWith(s, p) == Len(s) >= Len(p) /\ SubSeq(s, 1, Len(p)) = p

Drop(s, n) == SubSeq(s, n + 1, Len(s))

\* The printable ASCII characters, in code order from 32 (space) to 126
\* (code 96, the grave accent, is written "<grave>").
AsciiPrintable ==
    <<" ", "!", "\"", "#", "$", "%", "&", "'", "(", ")", "*", "+", ",", "-", ".", "/",
      "0", "1", "2", "3", "4", "5", "6", "7", "8", "9", ":", ";", "<", "=", ">", "?",
      "@", "A", "B", "C", "D", "E", "F", "G", "H", "I", "J", "K", "L", "M", "N", "O",
      "P", "Q", "R", "S", "T", "U", "V", "W", "X", "Y", "Z", "[", "\\", "]", "^", "_",
      "<grave>", "a", "b", "c", "d", "e", "f", "g", "h", "i", "j", "k", "l", "m", "n", "o",
      "p", "q", "r", "s", "t", "u", "v", "w", "x", "y", "z", "{", "|", "}", "~">>

\* The code of a character; a character outside ASCII is written as a
\* longer string and has no single code.
CharCode(ch) ==
    IF ch = "\n" THEN 10
    ELSE IF ch = "\t" THEN 9
    ELSE IF \E i \in DOMAIN AsciiPrintable : AsciiPrintable[i] = ch
         THEN 31 + (CHOOSE i \in DOMAIN AsciiPrintable : AsciiPrintable[i] = ch)
         ELSE 256

\* str::as_bytes, for ASCII text.
as_bytes(s) == [i \in DOMAIN s |-> CharCode(s[i])]

is_ascii_digit(ch) == CharCode(ch) \in 48..57

is_ascii_uppercase(ch) == CharCode(ch) \in 65..90

is_ascii_lowercase(ch) == CharCode(ch) \in 97..122

is_ascii_alphanumeric(ch) ==
    is_ascii_digit(ch) \/ is_ascii_uppercase(ch) \/ is_ascii_lowercase(ch)

to_ascii_uppercase(ch) ==
    IF is_ascii_lowercase(ch) THEN AsciiPrintable[CharCode(ch) - 32 - 31] ELSE ch

is_whitespace(ch) == ch \in {" ", "\t", "\n"}

(***************************************************************************)
(* sanitize_ident                                                          *)
(***************************************************************************)
DefaultIdent == <<"P", "R", "O", "G", "R", "A", "M">>

\* the loop body: one character of the input to one character of `out`
SanitizeChar(ch) ==
    IF is_ascii_alphanumeric(ch) THEN to_ascii_uppercase(ch) ELSE "_"

sanitize_ident(s) ==
    LET out == [i \in DOMAIN s |-> SanitizeChar(s[i])]
    IN  IF out = << >> THEN DefaultIdent ELSE out

(***************************************************************************)
(* load_program_id_bytes                                                   *)
(***************************************************************************)
RECURSIVE trim_start(_)
trim_start(s) ==
    IF s # << >> /\ is_whitespace(Head(s)) THEN trim_start(Tail(s)) ELSE s

RECURSIVE trim_end(_)
trim_end(s) ==
    IF s # << >> /\ is_whitespace(s[Len(s)])
    THEN trim_end(SubSeq(s, 1, Len(s) - 1)) ELSE s

trim(s) == trim_end(trim_start(s))

\* str::trim_start_matches: the pattern is removed as often as it leads.
RECURSIVE trim_start_matches(_, _)
trim_start_matches(s, pat) ==
    IF StartsWith(s, pat) THEN trim_start_matches(Drop(s, Len(pat)), pat) ELSE s

\* hex: the value of one digit, 16 for a character that is none
HexVal(ch) ==
    LET c == CharCode(ch)
    IN  IF c \in 48..57 THEN c - 48
        ELSE IF c \in 65..70 THEN c - 65 + 10
        ELSE IF c \in 97..102 THEN c - 97 + 10
        ELSE 16

\* hex::decode
hex_decode(h) ==
    IF Len(h) % 2 # 0 THEN Err("Odd number of digits")
    ELSE IF \E i \in DOMAIN h : HexVal(h[i]) = 16
    THEN LET i == CHOOSE j \in DOMAIN h :
                      HexVal(h[j]) = 16 /\ \A k \in 1..(j - 1) : HexVal(h[k]) # 16
         IN  Err("Invalid character '" \o h[i] \o "' at position " \o ToString(i - 1))
    ELSE Ok([i \in 1..(Len(h) \div 2) |->
                HexVal(h[2 * i - 1]) * 16 + HexVal(h[2 * i])])

HexPrefixLower == <<"0", "x">>

HexPrefixUpper == <<"0", "X">>

\* the (None, Some(h), None) arm
StripHexPrefixes(h) ==
    trim_start_matches(trim_start_matches(trim(h), HexPrefixLower), HexPrefixUpper)

ProgramIdFromHex(h) ==
    LET r == hex_decode(StripHexPrefixes(h))
    IN  IF r.ok THEN r ELSE Err("program-id-hex: " \o r.err)

\* fs::read of a path of the model's file system
fs_read(file) ==
    IF file.exists THEN Ok(file.data) ELSE Err("No such file or directory (os error 2)")

load_program_id_bytes(a, files) ==
    IF IsSome(a.program_id_str) /\ ~IsSome(a.program_id_hex) /\ ~IsSome(a.program_id_file)
    THEN Ok(as_bytes(Unwrap(a.program_id_str)))
    ELSE IF ~IsSome(a.program_id_str) /\ IsSome(a.program_id_hex) /\ ~IsSome(a.program_id_file)
    THEN ProgramIdFromHex(Unwrap(a.program_id_hex))
    ELSE IF ~IsSome(a.program_id_str) /\ ~IsSome(a.program_id_hex) /\ IsSome(a.program_id_file)
    THEN LET r == fs_read(files.pid_file)
         IN  IF r.ok THEN r ELSE Err("read program-id-file: " \o r.err)
    ELSE Err("provide exactly one of --program-id-str | --program-id-hex | --program-id-file")

(***************************************************************************)
(* derive_program_hash: 32 bytes determined by the domain separator and    *)
(* the identifier bytes.                                                   *)
(***************************************************************************)
HashLen == 32

derive_program_hash(ds_program, program_id_bytes) ==
    LET d == SumSeq(as_bytes(ds_program)) + 7 * Len(ds_program)
        m == SumSeq(program_id_bytes) + 11 * Len(program_id_bytes)
    IN  [i \in 1..HashLen |-> (d * 31 + m * 17 + i * (2 * m + 13) + 101) % 256]

(***************************************************************************)
(* The curve: ark_bls12_381's G1 with the field shrunk.  A field element   *)
(* takes one byte (48 in the library), so a compressed point is one byte   *)
(* and an uncompressed point two; the top three bits of the first byte are *)
(* the flags, as in the library.  G2 is encoded the same way over a larger *)
(* field and is modelled by the same group.                                *)
(***************************************************************************)
FqModulus == 29

CoeffB == 4

SubgroupOrder == 5

Fq == 0..(FqModulus - 1)

Zero == [x |-> 0, y |-> 0, infinity |-> TRUE]

Affine(x, y) == [x |-> x, y |-> y, infinity |-> FALSE]

FqInv(a) == CHOOSE b \in Fq : (a * b) % FqModulus = 1

FqNeg(a) == (FqModulus - a) % FqModulus

Add(P, Q) ==
    IF P.infinity THEN Q
    ELSE IF Q.infinity THEN P
    ELSE IF P.x = Q.x /\ (P.y + Q.y) % FqModulus = 0 THEN Zero
    ELSE LET l == IF P = Q
                  THEN (3 * P.x * P.x * FqInv((2 * P.y) % FqModulus)) % FqModulus
                  ELSE ((Q.y + FqNeg(P.y)) * FqInv((Q.x + FqNeg(P.x)) % FqModulus))
                           % FqModulus
             x3 == (l * l + FqNeg(P.x) + FqNeg(Q.x)) % FqModulus
         IN  Affine(x3, (l * (P.x + FqNeg(x3)) + FqNeg(P.y)) % FqModulus)

RECURSIVE Mul(_, _)
Mul(k, P) == IF k = 0 THEN Zero ELSE Add(P, Mul(k - 1, P))

is_on_curve(P) ==
    P.infinity \/ (P.y * P.y) % FqModulus = (P.x * P.x * P.x + CoeffB) % FqModulus

is_in_correct_subgroup_assuming_on_curve(P) == Mul(SubgroupOrder, P) = Zero

\* Valid::check of a point, what Validate::Yes asks for
G1Check(P) == is_on_curve(P) /\ is_in_correct_subgroup_assuming_on_curve(P)

\* the points a verifying key may hold
G1Points == {P \in {Zero} \cup {Affine(x, y) : x \in Fq, y \in Fq} : G1Check(P)}

\* y > -y
IsLargest(P) == P.y > FqNeg(P.y)

\* the point with this x and the chosen one of the two y, if x is on the curve
get_point_from_x_unchecked(x, greatest) ==
    LET ys == {y \in Fq : (y * y) % FqModulus = (x * x * x + CoeffB) % FqModulus}
        larger == CHOOSE y \in ys : \A z \in ys : z <= y
        smaller == CHOOSE y \in ys : \A z \in ys : y <= z
    IN  IF ys = {} THEN None
        ELSE Some(Affine(x, IF greatest THEN larger ELSE smaller))

\* EncodingFlags::get_flags
get_flags(b) ==
    [is_compressed |-> (b \div 128) % 2 = 1,
     is_infinity |-> (b \div 64) % 2 = 1,
     is_lexographically_largest |-> (b \div 32) % 2 = 1]

\* EncodingFlags::encode_flags, on the first byte
encode_flags(f, b) ==
    b + (IF f.is_compressed THEN 128 ELSE 0)
      + (IF f.is_infinity THEN 64 ELSE 0)
      + (IF f.is_compressed /\ ~f.is_infinity /\ f.is_lexographically_largest
         THEN 32 ELSE 0)

\* a field element from a byte, the flag bits masked off the first one
read_fq(b, mask) ==
    LET v == IF mask THEN b % 32 ELSE b
    IN  IF v < FqModulus THEN Some(v) ELSE None

Read(P, rest) == Ok([p |-> P, rest |-> rest])

\* the point of a compressed encoding whose flags and x have been read
CompressedPoint(flags, x, rest) ==
    IF ~flags.is_compressed THEN Err("UnexpectedFlags")
    ELSE IF flags.is_infinity THEN Read(Zero, rest)
    ELSE IF ~IsSome(x) THEN Err("InvalidData")
    ELSE IF ~IsSome(get_point_from_x_unchecked(Unwrap(x), flags.is_lexographically_largest))
    THEN Err("InvalidData")
    ELSE Read(Unwrap(get_point_from_x_unchecked(Unwrap(x),
                                                flags.is_lexographically_largest)), rest)

read_g1_compressed(bytes) ==
    IF Len(bytes) < 1 THEN Err("InvalidData")
    ELSE CompressedPoint(get_flags(bytes[1]), read_fq(bytes[1], TRUE), Drop(bytes, 1))

\* the point of an uncompressed encoding whose flags, x and y have been read
UncompressedPoint(flags, x, y, rest) ==
    IF flags.is_compressed THEN Err("UnexpectedFlags")
    ELSE IF flags.is_infinity THEN Read(Zero, rest)
    ELSE IF ~IsSome(x) \/ ~IsSome(y) THEN Err("InvalidData")
    ELSE Read(Affine(Unwrap(x), Unwrap(y)), rest)

read_g1_uncompressed(bytes) ==
    IF Len(bytes) < 2 THEN Err("InvalidData")
    ELSE UncompressedPoint(get_flags(bytes[1]), read_fq(bytes[1], TRUE),
                           read_fq(bytes[2], FALSE), Drop(bytes, 2))

\* the check that follows the read under Validate::Yes
ValidateG1(r, validate) ==
    IF ~r.ok THEN r
    ELSE IF validate /\ ~G1Check(r.val.p) THEN Err("InvalidData")
    ELSE r

\* Affine::deserialize_with_mode
DeserializeG1(bytes, compress, validate) ==
    ValidateG1(IF compress THEN read_g1_compressed(bytes) ELSE read_g1_uncompressed(bytes),
               validate)

\* Affine::serialize_with_mode
SerializeG1(P, compress) ==
    LET flags == [is_compressed |-> compress,
                  is_infinity |-> P.infinity,
                  is_lexographically_largest |-> IsLargest(P)]
        q == IF P.infinity THEN Zero ELSE P
    IN  IF compress THEN <<encode_flags(flags, q.x)>>
        ELSE <<encode_flags(flags, q.x), q.y>>

\* u64, little endian (lengths of the model stay below 2^16)
SerializeU64(n) == <<n % 256, (n \div 256) % 256, 0, 0, 0, 0, 0, 0>>

\* A length read from the input; one that no input of the model can hold
\* (2^16 and more) is cut to one more than the bytes left, which no run of
\* the element loop can satisfy either.
U64Value(bytes, rest) ==
    IF \E i \in 3..8 : bytes[i] # 0 THEN Len(rest) + 1
    ELSE IF bytes[1] + 256 * bytes[2] > Len(rest) THEN Len(rest) + 1
    ELSE bytes[1] + 256 * bytes[2]

DeserializeU64(bytes) ==
    IF Len(bytes) < 8 THEN Err("IoError")
    ELSE Ok([n |-> U64Value(bytes, Drop(bytes, 8)), rest |-> Drop(bytes, 8)])

\* n points read one after the other, each as DeserializeG1 reads it
RECURSIVE ReadPoints(_, _, _, _, _)
ReadNext(r, n, compress, validate, acc) ==
    IF ~r.ok THEN r
    ELSE ReadPoints(r.val.rest, n - 1, compress, validate, Append(acc, r.val.p))

ReadPoints(bytes, n, compress, validate, acc) ==
    IF n = 0 THEN Ok([v |-> acc, rest |-> bytes])
    ELSE ReadNext(DeserializeG1(bytes, compress, validate), n, compress, validate, acc)

\* Vec<T>::batch_check
BatchCheck(r, validate) ==
    IF ~r.ok THEN r
    ELSE IF validate /\ \E i \in DOMAIN r.val.v : ~G1Check(r.val.v[i])
    THEN Err("InvalidData")
    ELSE r

\* Vec<T>::deserialize_with_mode: the elements are read with Validate::No
ReadElements(l, compress, validate) ==
    IF ~l.ok THEN l
    ELSE BatchCheck(ReadPoints(l.val.rest, l.val.n, compress, FALSE, << >>), validate)

\* Vec<T>::deserialize_with_mode: length, elements, then batch_check
DeserializeVec(bytes, compress, validate) ==
    ReadElements(DeserializeU64(bytes), compress, validate)

SerializeVec(v, compress) ==
    SerializeU64(Len(v)) \o Flatten([i \in DOMAIN v |-> SerializeG1(v[i], compress)])

(***************************************************************************)
(* ark_groth16::VerifyingKey: alpha_g1, beta_g2, gamma_g2, delta_g2 and    *)
(* gamma_abc_g1, (de)serialized field by field in this order.  The reader  *)
(* is left wherever the last field ended: bytes after it are not looked at.*)
(***************************************************************************)
VerifyingKey(a, b, g, d, abc) ==
    [alpha_g1 |-> a, beta_g2 |-> b, gamma_g2 |-> g, delta_g2 |-> d,
     gamma_abc_g1 |-> abc]

\* the key of its four points and its vector
WithVec(pts, v) ==
    IF ~v.ok THEN v
    ELSE Ok(VerifyingKey(pts[1], pts[2], pts[3], pts[4], v.val.v))

WithFields(f, compress, validate) ==
    IF ~f.ok THEN f
    ELSE WithVec(f.val.v, DeserializeVec(f.val.rest, compress, validate))

\* VerifyingKey::deserialize_with_mode(&mut Cursor::new(&vk_raw), compress, validate)
deserialize_with_mode(bytes, compress, validate) ==
    WithFields(ReadPoints(bytes, 4, compress, validate, << >>), compress, validate)

\* vk.serialize_with_mode(&mut out, compress)
serialize_with_mode(k, compress) ==
    SerializeG1(k.alpha_g1, compress) \o SerializeG1(k.beta_g2, compress)
        \o SerializeG1(k.gamma_g2, compress) \o SerializeG1(k.delta_g2, compress)
        \o SerializeVec(k.gamma_abc_g1, compress)

\* DeserializeErrorText with the decoder's own error passed on to the user
DeserializeErrorTextLeaky(e_compressed, e_uncompressed) ==
    "failed to deserialize verifying key: " \o e_uncompressed

\* the error text of line 123, whatever the two decoders reported
DeserializeErrorText(e_compressed, e_uncompressed) ==
    "failed to deserialize verifying key (neither compressed nor uncompressed)"

(***************************************************************************)
(* build_snippet                                                           *)
(***************************************************************************)
SnippetHeader ==
    <<"/", "/", " ", "-", "-", "-", " ", "p", "a", "s", "t", "e", " ", "i", "n", "t",
      "o", " ", "s", "r", "c", "/", "z", "k", "/", "z", "k", "v", "e", "r", "i", "f",
      "y", ".", "r", "s", " ", "-", "-", "-", "\n">>

DsOpen ==
    <<"/", "/", " ", "D", "S", ":", " ">>

DsClose ==
    <<"\n", "\n">>

HashDeclOpen ==
    <<"p", "u", "b", " ", "c", "o", "n", "s", "t", " ", "P", "R", "O", "G", "R", "A",
      "M", "_", "H", "A", "S", "H", "_">>

HashDeclClose ==
    <<":", " ", "[", "u", "8", ";", " ", "3", "2", "]", " ", "=", " ", "[", "\n">>

ArrayClose ==
    <<"]", ";", "\n", "\n">>

VkDeclOpen ==
    <<"p", "u", "b", " ", "c", "o", "n", "s", "t", " ", "V", "K", "_">>

VkDeclClose ==
    <<"_", "B", "L", "S", "1", "2", "_", "3", "8", "1", "_", "G", "R", "O", "T", "H",
      "1", "6", ":", " ", "&", "[", "u", "8", "]", " ", "=", " ", "&", "[", "\n">>

LookupOpen ==
    <<"#", "[", "c", "f", "g", "(", "f", "e", "a", "t", "u", "r", "e", " ", "=", " ",
      "\"", "z", "k", "-", "g", "r", "o", "t", "h", "1", "6", "\"", ")", "]", "\n", "f",
      "n", " ", "p", "r", "o", "g", "r", "a", "m", "_", "v", "k", "_", "l", "o", "o",
      "k", "u", "p", "(", "p", "r", "o", "g", "r", "a", "m", "_", "h", "a", "s", "h",
      ":", " ", "&", "[", "u", "8", ";", " ", "3", "2", "]", ")", " ", "-", ">", " ",
      "O", "p", "t", "i", "o", "n", "<", "&", "'", "s", "t", "a", "t", "i", "c", " ",
      "[", "u", "8", "]", ">", " ", "{", "\n", " ", " ", " ", " ", "i", "f", " ", "c",
      "t", "_", "e", "q", "3", "2", "(", "p", "r", "o", "g", "r", "a", "m", "_", "h",
      "a", "s", "h", ",", " ", "&", "P", "R", "O", "G", "R", "A", "M", "_", "H", "A",
      "S", "H", "_">>

LookupMid ==
    <<")", " ", "{", "\n", " ", " ", " ", " ", " ", " ", " ", " ", "r", "e", "t", "u",
      "r", "n", " ", "S", "o", "m", "e", "(", "V", "K", "_">>

LookupClose ==
    <<"_", "B", "L", "S", "1", "2", "_", "3", "8", "1", "_", "G", "R", "O", "T", "H",
      "1", "6", ")", ";", "\n", " ", " ", " ", " ", "}", "\n", " ", " ", " ", " ", "N",
      "o", "n", "e", "\n", "}", "\n", "\n", "/", "/", " ", "d", "o", "n", "e", ".", "\n">>

RowIndent == <<" ", " ", " ", " ">>

ItemSeparator == <<",", " ">>

HexDigits ==
    <<"0", "1", "2", "3", "4", "5", "6", "7", "8", "9", "a", "b", "c", "d", "e", "f">>

\* format!("0x{b:02x}")
FormatByte(b) == <<"0", "x", HexDigits[(b \div 16) + 1], HexDigits[(b % 16) + 1]>>

\* one turn of either loop; i counts from 0, and the separator is left out
\* at index `last`
EmitItem(i, b, last) ==
    (IF i % 16 = 0 THEN RowIndent ELSE << >>)
        \o FormatByte(b)
        \o (IF i # last THEN ItemSeparator ELSE << >>)
        \o (IF i % 16 = 15 THEN <<"\n">> ELSE << >>)

EmitItems(bytes, last) ==
    Flatten([j \in DOMAIN bytes |-> EmitItem(j - 1, bytes[j], last)])

\* `if i != 31`
HashLastIndex == 31

\* VkLastIndex with the condition of the first loop copied into the second
VkLastIndexCopied(bytes) == 31

\* `if i + 1 != vk_bytes.len()`
VkLastIndex(bytes) == Len(bytes) - 1

\* format!("// DS: {ds}\n\n")
EmitDs(ds) == DsOpen \o ds \o DsClose

build_snippet(prefix, ds, hash, bytes) ==
    SnippetHeader \o EmitDs(ds)
        \o HashDeclOpen \o prefix \o HashDeclClose
        \o EmitItems(hash, HashLastIndex) \o ArrayClose
        \o VkDeclOpen \o prefix \o VkDeclClose
        \o EmitItems(bytes, VkLastIndex(bytes)) \o ArrayClose
        \o LookupOpen \o prefix \o LookupMid \o prefix \o LookupClose

(***************************************************************************)
(* The inputs of the model.                                                *)
(***************************************************************************)
DS_PROGRAM_DEFAULT ==
    <<"N", "O", "N", "O", "S", ":", "Z", "K", ":", "P", "R", "O", "G", "R", "A", "M", ":", "v", "1">>

File(data) == [exists |-> TRUE, data |-> data]

NoFile == [exists |-> FALSE, data |-> << >>]

\* A key of the pipeline's runs.
SampleKey ==
    VerifyingKey(Affine(7, 12), Affine(7, 17), Affine(14, 14), Zero, <<Affine(14, 15)>>)

\* What the command line can hold once clap has parsed it: the three
\* --program-id-* options form one group, so at most one of them is given.
ProgramIdArgs ==
    {[program_id_str |-> Some(<<"d", "e", "m", "o">>), program_id_hex |-> None, program_id_file |-> None],
     [program_id_str |-> None, program_id_hex |-> Some(<<"0", "x", "D", "E", "a", "d", "0", "1">>), program_id_file |-> None],
     [program_id_str |-> None, program_id_hex |-> Some(<<"0", "x", "z", "z">>), program_id_file |-> None],
     [program_id_str |-> None, program_id_hex |-> None, program_id_file |-> Some("pid.bin")],
     [program_id_str |-> None, program_id_hex |-> None, program_id_file |-> None]}

ConstPrefixArgs == {DefaultIdent, <<"a", "t", "t", "e", "s", "t", " ", "v", "1">>}

OutArgs == {None, Some("out.rs")}

RunArgs ==
    {[program_id_str |-> p.program_id_str, program_id_hex |-> p.program_id_hex,
      program_id_file |-> p.program_id_file, const_prefix |-> c,
      ds_program |-> DS_PROGRAM_DEFAULT, out |-> o] :
        p \in ProgramIdArgs, c \in ConstPrefixArgs, o \in OutArgs}

RunVkFiles ==
    {NoFile, File(<< >>),
     File(serialize_with_mode(SampleKey, TRUE)),
     File(serialize_with_mode(SampleKey, FALSE)),
     File(serialize_with_mode(SampleKey, TRUE) \o <<0>>),
     File(<<0, 0, 0, 0, 0, 0, 0, 0, 0, 0, 0, 0>>)}

RunFiles ==
    {[pid_file |-> p, vk_file |-> v] : p \in {NoFile, File(<<1, 2, 3>>)}, v \in RunVkFiles}

\* The keys the normaliser is tried on.
KeyFieldPoints == {Affine(7, 17), Affine(14, 14)}

Keys ==
    {VerifyingKey(a, b, g, d, abc) :
        a \in G1Points, b \in KeyFieldPoints, g \in KeyFieldPoints,
        d \in KeyFieldPoints, abc \in SeqsUpTo(KeyFieldPoints, MaxAbc)}

\* Ways an encoded key is damaged before it is handed to the normaliser.
TrailBytes == {0, 135}

DamageBytes == {0, 64, 129, 135, 159, 192}

Mutations(enc) ==
    {[kind |-> "none", at |-> 0, bytes |-> << >>]}
        \cup {[kind |-> "trail", at |-> 0, bytes |-> t] :
                 t \in SeqsUpTo(TrailBytes, MaxTrail) \ {<< >>}}
        \cup {[kind |-> "truncate", at |-> n, bytes |-> << >>] : n \in {0, Len(enc) - 1}}
        \cup UNION {{[kind |-> "set", at |-> i, bytes |-> <<b>>] :
                         b \in DamageBytes \ {enc[i]}} : i \in 1..Len(enc)}

Mutate(enc, m) ==
    IF m.kind = "none" THEN enc
    ELSE IF m.kind = "trail" THEN enc \o m.bytes
    ELSE IF m.kind = "truncate" THEN SubSeq(enc, 1, m.at)
    ELSE [enc EXCEPT ![m.at] = m.bytes[1]]

\* The inputs of the helpers tried on their own.
IdentChars == {"a", "Z", "7", "!", " ", "_", "<e-acute>"}

IdentInputs ==
    SeqsUpTo(IdentChars, MaxIdentLen) \cup {<<"a", "t", "t", "e", "s", "t", " ", "v", "1">>}

HexChars == {"0", "x", "X", "a", "F", "g", " "}

HexInputs ==
    SeqsUpTo(HexChars, MaxHexLen)
        \cup {<<"0", "x", "0", "x", "a", "b">>,
              <<"0", "x", "0", "X", "A", "B">>}

DsInputs ==
    {DS_PROGRAM_DEFAULT, << >>, <<"a", "\n", "b">>,
     <<"v", "2", "\n", "p", "u", "b", " ", "c", "o", "n", "s", "t", " ", "X", ":", " ", "u", "8", " ", "=", " ", "1", ";">>}

SnippetPrefixes == {DefaultIdent, sanitize_ident(<<"a", "t", "t", "e", "s", "t", " ", "v", "1">>), <<"_">>}

\* n bytes, from `base` in steps of `step`
BytePattern(base, step, n) == [i \in 1..n |-> (base + (i - 1) * step) % 256]

SnippetBytes ==
    {BytePattern(b, s, n) : b \in {0, 159}, s \in {1, 17}, n \in 0..MaxVkLen}

SnippetHashes ==
    {derive_program_hash(DS_PROGRAM_DEFAULT, p) : p \in {<< >>, as_bytes(<<"d", "e", "m", "o">>)}}

(***************************************************************************)
(* The run: main -> run -> the helpers, one action per step of run().      *)
(***************************************************************************)
Returns(r) == result' = Some(r) /\ pc' = "returned"

\* line 62: let pid_bytes = load_program_id_bytes(&args)?;
\* line 65: let program_hash = derive_program_hash(&args.ds_program, &pid_bytes);
LoadProgramId ==
    /\ pc = "load_pid"
    /\ LET r == load_program_id_bytes(args, fsys)
       IN  IF r.ok
           THEN /\ pid_bytes' = r.val
                /\ program_hash' = derive_program_hash(args.ds_program, r.val)
                /\ pc' = "read_vk"
                /\ UNCHANGED result
           ELSE /\ Returns(Err(r.err))
                /\ UNCHANGED <<pid_bytes, program_hash>>
    /\ UNCHANGED <<args, fsys, vk_raw, vk, vk_bytes, attempts, stdout, outfile,
                   emits, stderr, exit_code, round, first_out, call, ret>>

\* load_and_normalize_vk, lines 105-108: read the file, refuse an empty one
ReadVk ==
    /\ pc = "read_vk"
    /\ LET r == fs_read(fsys.vk_file)
       IN  IF ~r.ok
           THEN Returns(Err("read verifying key: " \o r.err)) /\ UNCHANGED vk_raw
           ELSE IF r.val = << >>
           THEN Returns(Err("verifying key file is empty")) /\ UNCHANGED vk_raw
           ELSE vk_raw' = r.val /\ pc' = "try_compressed" /\ UNCHANGED result
    /\ attempts' = << >>
    /\ UNCHANGED <<args, fsys, pid_bytes, program_hash, vk, vk_bytes, stdout, outfile,
                   emits, stderr, exit_code, round, first_out, call, ret>>

Attempt(mode, r) ==
    [mode |-> mode, ok |-> r.ok, err |-> IF r.ok THEN "" ELSE r.err, input |-> vk_raw]

\* TryCompressed with `.or(..)` for `.or_else(..)`: the fallback is evaluated
\* whatever the first attempt returned
TryCompressedEager ==
    /\ pc = "try_compressed"
    /\ LET r == deserialize_with_mode(vk_raw, TRUE, TRUE)
       IN  /\ attempts' = Append(attempts, Attempt("compressed", r))
           /\ vk' = IF r.ok THEN Some(r.val) ELSE None
           /\ pc' = "try_uncompressed"
    /\ UNCHANGED <<args, fsys, pid_bytes, program_hash, vk_raw, vk_bytes, result,
                   stdout, outfile, emits, stderr, exit_code, round, first_out,
                   call, ret>>

\* lines 111-115: the compressed attempt; or_else runs its closure on Err only
TryCompressed ==
    /\ pc = "try_compressed"
    /\ LET r == deserialize_with_mode(vk_raw, TRUE, TRUE)
       IN  /\ attempts' = Append(attempts, Attempt("compressed", r))
           /\ IF r.ok
              THEN vk' = Some(r.val) /\ pc' = "serialize"
              ELSE vk' = None /\ pc' = "try_uncompressed"
    /\ UNCHANGED <<args, fsys, pid_bytes, program_hash, vk_raw, vk_bytes, result,
                   stdout, outfile, emits, stderr, exit_code, round, first_out,
                   call, ret>>

\* TryUncompressed with Validate::No for Validate::Yes
TryUncompressedUnchecked ==
    /\ pc = "try_uncompressed"
    /\ LET r == deserialize_with_mode(vk_raw, FALSE, FALSE)
       IN  /\ attempts' = Append(attempts, Attempt("uncompressed", r))
           /\ IF r.ok
              THEN vk' = Some(r.val) /\ pc' = "serialize" /\ UNCHANGED result
              ELSE /\ vk' = None
                   /\ Returns(Err(DeserializeErrorText(attempts[1].err, r.err)))
    /\ UNCHANGED <<args, fsys, pid_bytes, program_hash, vk_raw, vk_bytes, stdout,
                   outfile, emits, stderr, exit_code, round, first_out, call, ret>>

\* lines 116-123: the uncompressed attempt, and the one error text if it fails too
TryUncompressed ==
    /\ pc = "try_uncompressed"
    /\ LET r == deserialize_with_mode(vk_raw, FALSE, TRUE)
       IN  /\ attempts' = Append(attempts, Attempt("uncompressed", r))
           /\ IF r.ok
              THEN vk' = Some(r.val) /\ pc' = "serialize" /\ UNCHANGED result
              ELSE /\ vk' = None
                   /\ Returns(Err(DeserializeErrorText(attempts[1].err, r.err)))
    /\ UNCHANGED <<args, fsys, pid_bytes, program_hash, vk_raw, vk_bytes, stdout,
                   outfile, emits, stderr, exit_code, round, first_out, call, ret>>

\* Serialize with the bytes read handed back instead of the re-encoded key
SerializePassThrough ==
    /\ pc = "serialize"
    /\ vk_bytes' = vk_raw
    /\ pc' = "emit"
    /\ UNCHANGED <<args, fsys, pid_bytes, program_hash, vk_raw, vk, attempts, result,
                   stdout, outfile, emits, stderr, exit_code, round, first_out,
                   call, ret>>

\* lines 125-128: out is the compressed serialization of vk.  Writing into a
\* Vec does not fail, so the map_err of line 127 is never taken.
Serialize ==
    /\ pc = "serialize"
    /\ vk_bytes' = serialize_with_mode(Unwrap(vk), TRUE)
    /\ pc' = "emit"
    /\ UNCHANGED <<args, fsys, pid_bytes, program_hash, vk_raw, vk, attempts, result,
                   stdout, outfile, emits, stderr, exit_code, round, first_out,
                   call, ret>>

\* lines 71-72
Snippet ==
    build_snippet(sanitize_ident(args.const_prefix), args.ds_program, program_hash,
                  vk_bytes)

EmitUnchanged ==
    UNCHANGED <<args, fsys, pid_bytes, program_hash, vk_raw, vk, vk_bytes, attempts,
                round, first_out, call, ret>>

\* lines 74-76, fs::write succeeding
WriteFile ==
    /\ pc = "emit" /\ call.fn = "run" /\ IsSome(args.out)
    /\ outfile' = Snippet
    /\ emits' = emits + 1
    /\ Returns(Ok("unit"))
    /\ UNCHANGED <<stdout, stderr, exit_code>>
    /\ EmitUnchanged

\* lines 74-76, fs::write failing: File::create could not open the path
\* (k = 0, nothing written) or write_all stopped after k bytes of the snippet
WriteFileFails ==
    /\ pc = "emit" /\ call.fn = "run" /\ IsSome(args.out)
    /\ \E k \in 0..(Len(Snippet) - 1) : outfile' = SubSeq(Snippet, 1, k)
    /\ Returns(Err("write out.rs: No space left on device (os error 28)"))
    /\ UNCHANGED <<stdout, emits, stderr, exit_code>>
    /\ EmitUnchanged

\* line 78, print! succeeding
PrintStdout ==
    /\ pc = "emit" /\ call.fn = "run" /\ ~IsSome(args.out)
    /\ stdout' = Snippet
    /\ emits' = emits + 1
    /\ Returns(Ok("unit"))
    /\ UNCHANGED <<outfile, stderr, exit_code>>
    /\ EmitUnchanged

\* line 78, print! failing after k bytes: print! panics when the write to
\* the standard output fails; the panic hook writes its report to the
\* standard error and the process ends with status 101
PanicReport ==
    <<"thread 'main' panicked at src/main.rs:78:9:",
      "failed printing to stdout: Broken pipe (os error 32)",
      "note: run with RUST_BACKTRACE=1 environment variable to display a backtrace">>

PrintStdoutFails ==
    /\ pc = "emit" /\ call.fn = "run" /\ ~IsSome(args.out)
    /\ \E k \in 0..(Len(Snippet) - 1) : stdout' = SubSeq(Snippet, 1, k)
    /\ stderr' = stderr \o PanicReport
    /\ exit_code' = 101
    /\ pc' = "exited"
    /\ UNCHANGED <<outfile, emits, result>>
    /\ EmitUnchanged

\* main, lines 52-55: an Err is reported on one line and the process exits
\* with status 1; an Ok falls off the end of main
MainExit ==
    /\ pc = "returned" /\ call.fn = "run"
    /\ IF Unwrap(result).ok
       THEN exit_code' = 0 /\ UNCHANGED stderr
       ELSE exit_code' = 1 /\ stderr' = Append(stderr, "[x] " \o Unwrap(result).err)
    /\ pc' = "exited"
    /\ UNCHANGED <<args, fsys, pid_bytes, program_hash, vk_raw, vk, vk_bytes, attempts,
                   result, stdout, outfile, emits, round, first_out, call, ret>>

\* The normaliser is handed its own output as the next file.
Renormalize ==
    /\ pc = "emit" /\ call.fn = "load_and_normalize_vk" /\ round = 1
    /\ fsys' = [fsys EXCEPT !.vk_file = File(vk_bytes)]
    /\ first_out' = vk_bytes
    /\ round' = 2
    /\ pc' = "read_vk"
    /\ vk' = None /\ vk_raw' = << >> /\ vk_bytes' = << >> /\ attempts' = << >>
    /\ UNCHANGED <<args, pid_bytes, program_hash, result, stdout, outfile,
                   emits, stderr, exit_code, call, ret>>

(***************************************************************************)
(* The helpers on their own: one call, one return.                         *)
(***************************************************************************)
HelperUnchanged ==
    UNCHANGED <<pc, args, fsys, pid_bytes, program_hash, vk_raw, vk, vk_bytes,
                attempts, result, stdout, outfile, emits, stderr, exit_code,
                round, first_out, call>>

CallSanitizeIdent ==
    /\ call.fn = "sanitize_ident" /\ ret = None
    /\ ret' = Some(sanitize_ident(call.s))
    /\ HelperUnchanged

\* load_program_id_bytes with only --program-id-hex given
CallLoadProgramIdHex ==
    /\ call.fn = "load_program_id_bytes" /\ ret = None
    /\ ret' = Some(load_program_id_bytes(call.args, fsys))
    /\ HelperUnchanged

CallBuildSnippet ==
    /\ call.fn = "build_snippet" /\ ret = None
    /\ ret' = Some(build_snippet(call.prefix, call.ds, call.program_hash, call.vk_bytes))
    /\ HelperUnchanged

(***************************************************************************)
(* Specifications.                                                         *)
(***************************************************************************)
Idle ==
    /\ pid_bytes = << >> /\ program_hash = << >>
    /\ vk_raw = << >> /\ vk = None /\ vk_bytes = << >>
    /\ attempts = << >> /\ result = None
    /\ stdout = << >> /\ outfile = << >> /\ emits = 0
    /\ stderr = << >> /\ exit_code = -1
    /\ round = 1 /\ first_out = << >>
    /\ ret = None

NoArgs ==
    [program_id_str |-> None, program_id_hex |-> None, program_id_file |-> None,
     const_prefix |-> DefaultIdent, ds_program |-> DS_PROGRAM_DEFAULT, out |-> None]

NoFiles == [pid_file |-> NoFile, vk_file |-> NoFile]

\* The tool run once, from the parsed command line to the exit.
Init ==
    /\ pc = "load_pid"
    /\ args \in RunArgs
    /\ fsys \in RunFiles
    /\ call = [fn |-> "run"]
    /\ Idle

Next ==
    \/ LoadProgramId
    \/ ReadVk
    \/ TryCompressed
    \/ TryUncompressed
    \/ Serialize
    \/ WriteFile
    \/ WriteFileFails
    \/ PrintStdout
    \/ PrintStdoutFails
    \/ MainExit

Spec == Init /\ [][Next]_vars

\* load_and_normalize_vk on encoded keys, whole and damaged, and then on
\* its own output.
InitNormalize ==
    /\ pc = "read_vk"
    /\ args = NoArgs
    /\ \E k \in Keys, c \in BOOLEAN :
          \E m \in Mutations(serialize_with_mode(k, c)) :
             /\ call = [fn |-> "load_and_normalize_vk", key |-> k, compress |-> c,
                        mutation |-> m]
             /\ fsys = [pid_file |-> NoFile,
                        vk_file |-> File(Mutate(serialize_with_mode(k, c), m))]
    /\ Idle

NextNormalize ==
    \/ ReadVk
    \/ TryCompressed
    \/ TryUncompressed
    \/ Serialize
    \/ Renormalize

SpecNormalize == InitNormalize /\ [][NextNormalize]_vars

InitSanitize ==
    /\ pc = "idle" /\ args = NoArgs /\ fsys = NoFiles
    /\ \E s \in IdentInputs : call = [fn |-> "sanitize_ident", s |-> s]
    /\ Idle

SpecSanitize == InitSanitize /\ [][CallSanitizeIdent]_vars

InitHex ==
    /\ pc = "idle" /\ args = NoArgs /\ fsys = NoFiles
    /\ \E h \in HexInputs :
          call = [fn |-> "load_program_id_bytes",
                  args |-> [NoArgs EXCEPT !.program_id_hex = Some(h)]]
    /\ Idle

SpecHex == InitHex /\ [][CallLoadProgramIdHex]_vars

InitSnippet ==
    /\ pc = "idle" /\ args = NoArgs /\ fsys = NoFiles
    /\ \E p \in SnippetPrefixes, d \in DsInputs, h \in SnippetHashes, b \in SnippetBytes :
          call = [fn |-> "build_snippet", prefix |-> p, ds |-> d, program_hash |-> h,
                  vk_bytes |-> b]
    /\ Idle

SpecSnippet == InitSnippet /\ [][CallBuildSnippet]_vars

(***************************************************************************)
(* The properties.                                                         *)
(***************************************************************************)

\* C1: a run that succeeds emits the snippet exactly once and ends with
\* status 0; a run in which a step fails writes exactly one line to the
\* standard error, ends with a non-zero status and leaves no part of the
\* snippet in the output file or on the standard output.
C1_ExitContract ==
    pc = "exited" =>
        IF exit_code = 0
        THEN emits = 1 /\ stderr = << >>
        ELSE /\ Len(stderr) = 1
             /\ emits = 0
             /\ stdout = << >>
             /\ outfile = << >>

Normalizing == call.fn = "load_and_normalize_vk"

\* the bytes first handed to the normaliser
FirstInput == Mutate(serialize_with_mode(call.key, call.compress), call.mutation)

\* C2: the compressed and the uncompressed encoding of a key are both
\* accepted and both normalise to the key's compressed encoding; the
\* compressed attempt never decodes the uncompressed encoding.
C2_FormatEquivalence ==
    (Normalizing /\ call.mutation.kind = "none" /\ round = 1) =>
        /\ pc # "returned"
        /\ pc = "emit" =>
              /\ vk_bytes = serialize_with_mode(call.key, TRUE)
              /\ Unwrap(vk) = call.key
        /\ (~call.compress /\ Len(attempts) >= 1) => ~attempts[1].ok

C2_Witness ==
    /\ Normalizing /\ call.mutation.kind = "none" /\ round = 1
    /\ ~call.compress
    /\ pc = "emit"
    /\ call.key.gamma_abc_g1 # << >>

\* C3: whatever input the normaliser accepted, it accepts its own output
\* and returns it unchanged.
C3_Idempotence ==
    (Normalizing /\ round = 2) =>
        /\ pc # "returned"
        /\ pc = "emit" => vk_bytes = first_out

C3_Witness ==
    /\ Normalizing /\ round = 2 /\ pc = "emit"
    /\ vk_bytes = first_out
    /\ FirstInput # first_out

BothFailedText ==
    "failed to deserialize verifying key (neither compressed nor uncompressed)"

\* C4: the attempts are the compressed one and then, if and only if it
\* failed, the uncompressed one, both on the same non-empty bytes; when both
\* fail the result is the one error and no bytes; a key never comes from
\* the uncompressed attempt unless the compressed one rejected the input.
C4_TwoBranch ==
    Normalizing =>
        /\ Len(attempts) <= 2
        /\ \A i \in DOMAIN attempts :
              /\ attempts[i].mode = (IF i = 1 THEN "compressed" ELSE "uncompressed")
              /\ attempts[i].input = vk_raw
              /\ attempts[i].input # << >>
        /\ Len(attempts) = 2 => ~attempts[1].ok
        /\ (Len(attempts) = 1 /\ ~attempts[1].ok) => pc = "try_uncompressed"
        /\ (Len(attempts) = 2 /\ ~attempts[2].ok) =>
              /\ pc = "returned"
              /\ Unwrap(result) = Err(BothFailedText)
              /\ vk = None
              /\ vk_bytes = << >>
        /\ pc \in {"serialize", "emit"} => IsSome(vk) /\ attempts[Len(attempts)].ok

C4_Witness ==
    /\ Normalizing /\ pc = "emit"
    /\ Len(attempts) = 2 /\ ~attempts[1].ok /\ attempts[2].ok

\* C7: every input that both attempts reject gets the same error text.
C7_UniformRejection ==
    (Normalizing /\ pc = "returned" /\ Len(attempts) = 2) =>
        Unwrap(result) = Err(BothFailedText)

C7_Witness ==
    /\ Normalizing /\ pc = "returned" /\ Len(attempts) = 2
    /\ attempts[1].err = "UnexpectedFlags" /\ attempts[2].err = "InvalidData"
    /\ call.mutation.kind = "set"

\* C9: a compressed encoding followed by extra bytes is rejected by the
\* compressed attempt and is not normalised to the key of its prefix.
C9_TrailingBytesRejected ==
    (Normalizing /\ call.compress /\ call.mutation.kind = "trail" /\ round = 1) =>
        /\ Len(attempts) >= 1 => ~attempts[1].ok
        /\ pc \notin {"serialize", "emit"}

\* what the identifier sanitiser is said to return
C5_Expected(s) ==
    IF \A i \in DOMAIN s : ~is_ascii_alphanumeric(s[i])
    THEN DefaultIdent
    ELSE [i \in DOMAIN s |->
             IF is_ascii_alphanumeric(s[i]) THEN to_ascii_uppercase(s[i]) ELSE "_"]

\* C5: an input with no ASCII alphanumeric character yields "PROGRAM"; any
\* other input yields its characters uppercased, the others replaced by
\* "_"; the result is never empty.
C5_SanitizeFallback ==
    (call.fn = "sanitize_ident" /\ IsSome(ret)) =>
        /\ Unwrap(ret) = C5_Expected(call.s)
        /\ Unwrap(ret) # << >>

\* one leading "0x" or "0X" removed, if there is one
C8_StripOne(h) ==
    IF StartsWith(h, HexPrefixLower) \/ StartsWith(h, HexPrefixUpper)
    THEN Drop(h, 2) ELSE h

\* C8: the hex identifier is the hex decoding of the argument with one
\* optional leading "0x" or "0X" removed (surrounding white space aside);
\* an argument that is not hex after that is rejected.
C8_HexPrefixOnce ==
    (call.fn = "load_program_id_bytes" /\ IsSome(ret)) =>
        LET want == hex_decode(C8_StripOne(trim(Unwrap(call.args.program_id_hex))))
        IN  IF want.ok THEN Unwrap(ret) = Ok(want.val) ELSE ~Unwrap(ret).ok

\* The first position at or after `from` where `pat` occurs in `text`, or 0.
FindFrom(text, pat, from) ==
    LET hits == {j \in from..(Len(text) - Len(pat) + 1) :
                    SubSeq(text, j, j + Len(pat) - 1) = pat}
    IN  IF hits = {} THEN 0 ELSE CHOOSE j \in hits : \A k \in hits : j <= k

\* The text between the opening of an array literal and its "];".
ArrayBody(text, open) ==
    LET s == FindFrom(text, open, 1) + Len(open)
    IN  SubSeq(text, s, FindFrom(text, <<"]", ";">>, s) - 1)

\* The pieces of an array body that its separators (the commas) delimit.
Segments(body) ==
    LET commas == {i \in DOMAIN body : body[i] = ","}
        n == Cardinality(commas)
        at == [k \in 1..n |->
                  CHOOSE i \in commas : Cardinality({j \in commas : j < i}) = k - 1]
    IN  [k \in 1..(n + 1) |->
            SubSeq(body, IF k = 1 THEN 1 ELSE at[k - 1] + 1,
                         IF k = n + 1 THEN Len(body) ELSE at[k] - 1)]

\* The byte a piece denotes: white space around one literal 0xhh; -1 if it
\* is anything else.
LiteralValue(piece) ==
    LET t == trim(piece)
    IN  IF Len(t) = 4 /\ t[1] = "0" /\ t[2] = "x" /\ HexVal(t[3]) < 16 /\ HexVal(t[4]) < 16
        THEN 16 * HexVal(t[3]) + HexVal(t[4])
        ELSE -1

\* literal, separator, literal, ..., literal: the bytes in order, and
\* nothing but white space when there are none
ListsBytes(body, bytes) ==
    IF bytes = << >>
    THEN trim(body) = << >>
    ELSE /\ Len(Segments(body)) = Len(bytes)
         /\ \A k \in DOMAIN bytes : LiteralValue(Segments(body)[k]) = bytes[k]

\* C6: the key array of the snippet lists the N input bytes in order, a
\* separator between each two and none after the last; the hash array
\* lists the 32 bytes of the hash in the same way.
C6_EmissionComplete ==
    (call.fn = "build_snippet" /\ IsSome(ret)) =>
        /\ ListsBytes(ArrayBody(Unwrap(ret), VkDeclClose), call.vk_bytes)
        /\ ListsBytes(ArrayBody(Unwrap(ret), HashDeclClose), call.program_hash)
        /\ Len(call.program_hash) = 32

C6_Witness ==
    /\ call.fn = "build_snippet" /\ IsSome(ret)
    /\ Len(call.vk_bytes) = 17
    /\ call.vk_bytes[17] = 175

\* where the line holding position q of the text starts
LineStart(text, q) ==
    CHOOSE j \in 1..q :
        /\ j = 1 \/ text[j - 1] = "\n"
        /\ \A k \in j..(q - 1) : text[k] # "\n"

\* C10: every character of the domain separator lies on a line of the
\* snippet that begins with "//".
C10_DsInsideComment ==
    (call.fn = "build_snippet" /\ IsSome(ret)) =>
        LET out == Unwrap(ret)
            first == Len(SnippetHeader) + Len(DsOpen) + 1
        IN  \A q \in first..(first + Len(call.ds) - 1) :
               /\ out[q] = call.ds[q - first + 1]
               /\ out[LineStart(out, q)] = "/"
               /\ out[LineStart(out, q) + 1] = "/"

=============================================================================
